---- MODULE Spec2Model ----
(***************************************************************************)
(* Invoice extraction pipeline: local pattern extraction, the escalation   *)
(* decision of the orchestrator (InvoiceProcessor) and the remote          *)
(* extraction service (ClaudeExtractionService) with its retry decorator.  *)
(*                                                                         *)
(* Amounts are integers in cents.  Confidences of single fields are        *)
(* integers in hundredths; the overall confidence of a record is an        *)
(* integer in units of 1/3000, so that the mean of three hundredths and    *)
(* the last-bit error of its floating-point evaluation are both exact.     *)
(***************************************************************************)
EXTENDS Integers, Sequences, FiniteSets, TLC

\* ------------------------------------------------------------------------
\* Bounds of the model
\* ------------------------------------------------------------------------
MaxTables == 4
MaxAmountLen == 6
MaxTasks == 3

\* ------------------------------------------------------------------------
\* Program constants
\* ------------------------------------------------------------------------
LLM_ESCALATION_THRESHOLD == 2100          \* 0.7
CONFIDENCE_THRESHOLD == 2100              \* 0.7
REVIEW_CONFIDENCE == 2100                 \* 0.7 in InvoiceData.check_confidence
TOTAL_MISMATCH_CAP == 1800                \* 0.6 in InvoiceData.validate_total
TOTAL_TOLERANCE == 1                      \* 0.01 in InvoiceData.validate_total
LLM_CONFIDENCE == 2760                    \* 0.92
LLM_COMPANY_CONFIDENCE == 95              \* 0.95
TablesLimit == 3
MaxAttempts == 3
DEFAULT_CONFIDENCE == 3000                \* 1.0, default of confidence_score
MISSING_CONFIDENCE == 30                  \* 0.3
DERIVED_CONFIDENCE == 70                  \* 0.7
AMOUNT_CONFIDENCE == 85                   \* 0.85
ESTIMATED_CONFIDENCE == 50                \* 0.5
LINE_TOLERANCE == 1                       \* 0.01 in InvoiceLine.validate_line_total
LINE_MISMATCH_CAP == 50                   \* 0.5 in InvoiceLine.validate_line_total
ROW_CONFIDENCE == 80                      \* 0.8, a line read from a table row
LOCAL_PLACEHOLDER_CONFIDENCE == 30        \* 0.3
LLM_LINE_CONFIDENCE == 90                 \* 0.9
LLM_PLACEHOLDER_CONFIDENCE == 50          \* 0.5
DATE_CONFIDENCE == 95                     \* 0.95, the first date pattern
UNRESOLVED_DATE_CONFIDENCE == 30          \* 0.3, no date pattern matched
AMOUNT_WINDOW == 50                       \* characters searched from a keyword
MIN_NUMBER_LENGTH == 3                    \* len(value) >= 3

Modes == {"hybrid", "llm_only", "local_only"}

\* ------------------------------------------------------------------------
\* Settings
\* ------------------------------------------------------------------------
has_claude_api(api_key) == api_key

\* Variant: the configured mode is used whether or not a key is set.
effective_extraction_mode_configured(extraction_mode, api_key) == extraction_mode

effective_extraction_mode(extraction_mode, api_key) ==
    IF extraction_mode \in {"hybrid", "llm_only"} /\ ~has_claude_api(api_key)
    THEN "local_only"
    ELSE extraction_mode

\* ------------------------------------------------------------------------
\* Records
\* ------------------------------------------------------------------------
Min(a, b) == IF a < b THEN a ELSE b

Abs(a) == IF a < 0 THEN -a ELSE a

\* A constructor whose arguments fail a field constraint raises.
ValidationError == [error |-> "ValidationError"]

\* validate_line_total (field line_total) writes confidence into `values`
\* when line_total differs from quantity * unit_price, and returns the value
\* it was given; confidence is validated later and stored over the write.
validate_line_total_values(quantity, unit_price, v) ==
    IF Abs(v - quantity * unit_price) > LINE_TOLERANCE
    THEN [confidence |-> Min(100, LINE_MISMATCH_CAP), line_total |-> v]
    ELSE [confidence |-> 100, line_total |-> v]

\* InvoiceLine(...): quantity in units (gt=0), prices in cents, confidence in
\* hundredths (ge=0, le=1).
InvoiceLine(quantity, unit_price, line_total, confidence) ==
    IF quantity <= 0 \/ confidence \notin 0..100
    THEN ValidationError
    ELSE LET values1 == validate_line_total_values(quantity, unit_price, line_total)
             values2 == [values1 EXCEPT !.confidence = confidence]
         IN  [quantity |-> quantity,
              unit_price |-> unit_price,
              line_total |-> values2.line_total,
              confidence |-> values2.confidence]

\* Texts are sequences of one-character strings.  None is the absent
\* optional string; like the empty string it is falsy, and no operation of
\* the model is given an empty identifier.
None == << >>

CompanyInfo(name, tax_id, confidence) ==
    [name |-> name, tax_id |-> tax_id, confidence |-> confidence]

\* The validators of InvoiceData run field by field, in declaration order,
\* each on the dictionary `values` of the fields validated before it; the
\* validated value of a field is stored in `values` after its validator.
\* validate_total (field total) writes requires_review and confidence_score
\* into `values`; both fields are validated later and stored over it.
validate_total_values(subtotal, tax_amount, total) ==
    IF Abs(total - (subtotal + tax_amount)) > TOTAL_TOLERANCE
    THEN [requires_review |-> TRUE,
          confidence_score |-> Min(DEFAULT_CONFIDENCE, TOTAL_MISMATCH_CAP),
          written |-> TRUE]
    ELSE [requires_review |-> FALSE,
          confidence_score |-> DEFAULT_CONFIDENCE,
          written |-> FALSE]

\* Variant: the review flag is stored as passed.
check_confidence_off(v, confidence_score) == v

check_confidence(v, confidence_score) ==
    IF confidence_score < REVIEW_CONFIDENCE THEN TRUE ELSE v

InvoiceData(invoice_number, invoice_date, supplier, client, lines, subtotal, tax_amount, total, confidence_score, requires_review, origin, now) ==
    LET \* values after the validator of total
        values1 == validate_total_values(subtotal, tax_amount, total)
        \* confidence_score is validated after total: the input is stored
        values2 == [values1 EXCEPT !.confidence_score = confidence_score]
        \* requires_review is validated last: check_confidence on the input
        conf == values2.confidence_score
        rr == check_confidence(requires_review, values2.confidence_score)
    IN  [invoice_number |-> invoice_number,
         invoice_date |-> invoice_date,
         supplier |-> supplier,
         client |-> client,
         lines |-> lines,
         subtotal |-> subtotal,
         tax_amount |-> tax_amount,
         total |-> total,
         confidence_score |-> conf,
         requires_review |-> rr,
         \* default_factory=datetime.now, to the day
         extracted_at |-> now,
         origin |-> origin]

NoCompany == CompanyInfo("", None, 0)

\* Calendar days (datetime.date), and the value None of a date.
Days == {"2024-01-15", "2024-01-16"}

NoDate == "none"

\* The value None of a record variable.
NoRecord ==
    [invoice_number |-> "", invoice_date |-> NoDate, supplier |-> NoCompany,
     client |-> NoCompany, lines |-> << >>, subtotal |-> 0, tax_amount |-> 0, total |-> 0,
     confidence_score |-> 0, requires_review |-> FALSE, extracted_at |-> NoDate,
     origin |-> "none"]

\* ------------------------------------------------------------------------
\* Local extraction (LocalExtractionService)
\* ------------------------------------------------------------------------
ExtractionResult(value, confidence) == [value |-> value, confidence |-> confidence]

\* Confidence of the invoice-number pattern that matched (1..4, in list order).
InvoiceNumberPatternConfidence(p) ==
    CASE p = 1 -> 95
      [] p = 2 -> 90
      [] p = 3 -> 85
      [] p = 4 -> 90

\* p = 0: no pattern yields an accepted match.
_extract_invoice_number(p) ==
    IF p = 0
    THEN ExtractionResult("UNKNOWN", 0)
    ELSE ExtractionResult("F2024", InvoiceNumberPatternConfidence(p))

Digits == {"0", "1", "2", "3", "4", "5", "6", "7", "8", "9"}

UpperLetters ==
    {"A", "B", "C", "D", "E", "F", "G", "H", "I", "J", "K", "L", "M", "N",
     "O", "P", "Q", "R", "S", "T", "U", "V", "W", "X", "Y", "Z"}

\* [ABCDEFGHJNPQRSUVW] of cif_pattern
CifLetters ==
    {"A", "B", "C", "D", "E", "F", "G", "H", "J", "N", "P", "Q", "R", "S",
     "U", "V", "W"}

\* [A-J0-9] of cif_pattern
CifControl == {"A", "B", "C", "D", "E", "F", "G", "H", "I", "J"} \cup Digits

\* [XYZ] of nie_pattern
NieLetters == {"X", "Y", "Z"}

\* s[lo..hi] consists of characters of class.
AllIn(s, lo, hi, class) == \A i \in lo..hi : s[i] \in class

\* Variant: the business pattern takes any letter and any alphanumeric
\* control character.
_validate_tax_id_any_letter(tax_id) ==
    IF tax_id = None \/ Len(tax_id) # 9
    THEN FALSE
    ELSE \/ tax_id[1] \in UpperLetters /\ AllIn(tax_id, 2, 8, Digits)
            /\ tax_id[9] \in UpperLetters \cup Digits
         \/ AllIn(tax_id, 1, 8, Digits) /\ tax_id[9] \in UpperLetters
         \/ tax_id[1] \in NieLetters /\ AllIn(tax_id, 2, 8, Digits)
            /\ tax_id[9] \in UpperLetters

_validate_tax_id(tax_id) ==
    IF tax_id = None \/ Len(tax_id) # 9
    THEN FALSE
    ELSE LET cif_pattern == /\ tax_id[1] \in CifLetters
                            /\ AllIn(tax_id, 2, 8, Digits)
                            /\ tax_id[9] \in CifControl
             nif_pattern == /\ AllIn(tax_id, 1, 8, Digits)
                            /\ tax_id[9] \in UpperLetters
             nie_pattern == /\ tax_id[1] \in NieLetters
                            /\ AllIn(tax_id, 2, 8, Digits)
                            /\ tax_id[9] \in UpperLetters
         IN  cif_pattern \/ nif_pattern \/ nie_pattern

\* Identifiers as the documents and the remote backend write them.
B12345678 == <<"B", "1", "2", "3", "4", "5", "6", "7", "8">>
I12345678 == <<"I", "1", "2", "3", "4", "5", "6", "7", "8">>

\* sec.found: a role keyword occurs in the content; sec.named: a name line
\* follows it; sec.tax: the candidate matched by tax_id_pattern, or None.
_extract_company(sec) ==
    IF ~sec.found
    THEN NoCompany
    ELSE LET tax_id == IF sec.tax # None /\ ~_validate_tax_id(sec.tax)
                       THEN None ELSE sec.tax
             base == IF sec.named THEN 70 ELSE 40
             confidence == IF tax_id # None THEN base + 15 ELSE base
         IN  CompanyInfo(IF sec.named THEN "ACME SL" ELSE "UNKNOWN",
                         tax_id, confidence)

\* n / d rounded to the nearest integer, halves to the even one (quantize).
RoundHalfEven(n, d) ==
    LET q == n \div d
        r == n % d
    IN  IF 2 * r < d THEN q
        ELSE IF 2 * r > d THEN q + 1
        ELSE IF q % 2 = 0 THEN q ELSE q + 1

\* [€$\s] of _parse_decimal
CurrencyAndSpace == {"€", "$", " "}

\* The text without the characters of chars.
Remove(text, chars) == SelectSeq(text, LAMBDA c : c \notin chars)

\* str.replace(old, new) for single characters.
Replace(text, old, new) ==
    [i \in 1..Len(text) |-> IF text[i] = old THEN new ELSE text[i]]

\* str.count(c)
CountOf(text, c) == Len(SelectSeq(text, LAMBDA x : x = c))

\* str.rfind(c), counted from 1; 0 when c does not occur.
RFind(text, c) ==
    IF \E i \in 1..Len(text) : text[i] = c
    THEN CHOOSE i \in 1..Len(text) :
             text[i] = c /\ \A j \in (i + 1)..Len(text) : text[j] # c
    ELSE 0

DigitValue(c) ==
    CASE c = "0" -> 0 [] c = "1" -> 1 [] c = "2" -> 2 [] c = "3" -> 3
      [] c = "4" -> 4 [] c = "5" -> 5 [] c = "6" -> 6 [] c = "7" -> 7
      [] c = "8" -> 8 [] c = "9" -> 9

\* The number a sequence of digits writes.
RECURSIVE Number(_)
Number(digits) ==
    IF digits = << >> THEN 0
    ELSE 10 * Number(SubSeq(digits, 1, Len(digits) - 1))
         + DigitValue(digits[Len(digits)])

RECURSIVE Pow10(_)
Pow10(k) == IF k = 0 THEN 1 ELSE 10 * Pow10(k - 1)

\* Decimal(text): the texts of the model have no exponent, no underscore and
\* no infinity.  A number is sign * digits / 10^scale; "NaN" is not-a-number;
\* any other text raises InvalidOperation (ok is FALSE).
Decimal(text) ==
    LET signed == Len(text) > 0 /\ text[1] \in {"-", "+"}
        body == IF signed THEN SubSeq(text, 2, Len(text)) ELSE text
        dot == RFind(body, ".")
        digits == Remove(body, {"."})
    IN  IF body \in {<<"N", "a", "N">>, <<"n", "a", "n">>}
        THEN [ok |-> TRUE, nan |-> TRUE, sign |-> 1, digits |-> 0, scale |-> 0]
        ELSE IF /\ \A i \in 1..Len(body) : body[i] \in Digits \cup {"."}
                /\ CountOf(body, ".") <= 1
                /\ Len(digits) > 0
        THEN [ok |-> TRUE, nan |-> FALSE,
              sign |-> IF signed /\ text[1] = "-" THEN -1 ELSE 1,
              digits |-> Number(digits),
              scale |-> IF dot = 0 THEN 0 ELSE Len(body) - dot]
        ELSE [ok |-> FALSE, nan |-> FALSE, sign |-> 1, digits |-> 0, scale |-> 0]

\* The amounts _parse_decimal returns: cents, or not-a-number.
Amount(cents) == [cents |-> cents, nan |-> FALSE]

NaN == [cents |-> 0, nan |-> TRUE]

\* Decimal(cleaned).quantize(Decimal("0.01")) inside try / except
\* (ValueError, InvalidOperation): quantize keeps not-a-number.
Quantized(cleaned) ==
    LET d == Decimal(cleaned)
    IN  IF ~d.ok THEN Amount(0)
        ELSE IF d.nan THEN NaN
        ELSE Amount(d.sign * RoundHalfEven(d.digits * 100, Pow10(d.scale)))

\* Variant: a single comma among the last four characters is a decimal comma.
_parse_decimal_wide(value) ==
    LET cleaned == Remove(value, CurrencyAndSpace)
        comma == CountOf(cleaned, ",") > 0
        point == CountOf(cleaned, ".") > 0
    IN  IF comma /\ point
        THEN IF RFind(cleaned, ",") > RFind(cleaned, ".")
             THEN Quantized(Replace(Remove(cleaned, {"."}), ",", "."))
             ELSE Quantized(Remove(cleaned, {","}))
        ELSE IF comma
        THEN IF CountOf(cleaned, ",") = 1 /\ RFind(cleaned, ",") - 1 > Len(cleaned) - 5
             THEN Quantized(Replace(cleaned, ",", "."))
             ELSE Quantized(Remove(cleaned, {","}))
        ELSE Quantized(cleaned)

\* _parse_decimal on a text (str.rfind counts from 0, RFind from 1).
_parse_decimal(value) ==
    LET cleaned == Remove(value, CurrencyAndSpace)
        comma == CountOf(cleaned, ",") > 0
        point == CountOf(cleaned, ".") > 0
    IN  IF comma /\ point
        THEN IF RFind(cleaned, ",") > RFind(cleaned, ".")
             THEN Quantized(Replace(Remove(cleaned, {"."}), ",", "."))
             ELSE Quantized(Remove(cleaned, {","}))
        ELSE IF comma
        THEN IF CountOf(cleaned, ",") = 1 /\ RFind(cleaned, ",") - 1 > Len(cleaned) - 4
             THEN Quantized(Replace(cleaned, ",", "."))
             ELSE Quantized(Remove(cleaned, {","}))
        ELSE Quantized(cleaned)

\* _extract_amount_near_keywords: an amount > 0 at confidence 0.85, or 0 at 0.
_extract_amount_near_keywords(found) ==
    IF found > 0
    THEN ExtractionResult(found, AMOUNT_CONFIDENCE)
    ELSE ExtractionResult(0, 0)

_extract_totals(foundSubtotal, foundTax, foundTotal) ==
    LET total0 == _extract_amount_near_keywords(foundTotal)
        subtotal0 == _extract_amount_near_keywords(foundSubtotal)
        tax0 == _extract_amount_near_keywords(foundTax)
        \* cross-validate and fix
        subtotal1 == IF total0.value # 0 /\ subtotal0.value = 0 /\ tax0.value # 0
                     THEN ExtractionResult(total0.value - tax0.value, DERIVED_CONFIDENCE)
                     ELSE subtotal0
        tax1 == IF ~(total0.value # 0 /\ subtotal0.value = 0 /\ tax0.value # 0)
                   /\ total0.value # 0 /\ subtotal0.value # 0 /\ tax0.value = 0
                THEN ExtractionResult(total0.value - subtotal0.value, DERIVED_CONFIDENCE)
                ELSE tax0
        total1 == IF subtotal0.value # 0 /\ tax0.value # 0 /\ total0.value = 0
                  THEN ExtractionResult(subtotal0.value + tax0.value, DERIVED_CONFIDENCE)
                  ELSE total0
        \* default IVA estimation
        estimate == total1.value # 0 /\ subtotal1.value = 0
        subtotal2 == IF estimate
                     THEN ExtractionResult(RoundHalfEven(total1.value * 100, 121),
                                           ESTIMATED_CONFIDENCE)
                     ELSE subtotal1
        tax2 == IF estimate
                THEN ExtractionResult(total1.value - subtotal2.value, ESTIMATED_CONFIDENCE)
                ELSE tax1
    IN  [subtotal |-> subtotal2, tax |-> tax2, total |-> total1]

\* Last-bit error of sum([a, b, c]) / 3 in IEEE-754 double arithmetic against
\* the double nearest to the exact mean, for the per-field confidences the
\* extractors produce (in hundredths); it is nonzero only where the exact mean
\* is 0.7.
FloatMeanError(a, b, c) ==
    CASE a = 85 /\ b = 40 /\ c = 85 -> 1
      [] a = 85 /\ b = 55 /\ c = 70 -> -1
      [] a = 95 /\ b = 30 /\ c = 85 -> 1
      [] a = 95 /\ b = 85 /\ c = 30 -> -1
      [] OTHER -> 0

\* sum(confidences) / len(confidences), in units of 1/3000.
OverallConfidence(a, b, c) == 10 * (a + b + c) + FloatMeanError(a, b, c)

\* The lines built from the rows, in order; a row whose line raises is skipped.
RECURSIVE LinesOfRows(_)
LinesOfRows(rows) ==
    IF rows = << >>
    THEN << >>
    ELSE LET row == Head(rows)
             line == InvoiceLine(row.quantity, row.unit_price, row.line_total,
                                 ROW_CONFIDENCE)
         IN  IF line # ValidationError /\ (line.line_total > 0 \/ line.unit_price > 0)
             THEN <<line>> \o LinesOfRows(Tail(rows))
             ELSE LinesOfRows(Tail(rows))

\* What _parse_decimal raises for a cell of type bool: bool is an int, and
\* Decimal(str(True)) is outside the try block.
InvalidOperation == [error |-> "InvalidOperation"]

\* _extract_line_items raises: its handler takes IndexError, ValueError and
\* TypeError, and InvalidOperation is an ArithmeticError.
_extract_line_items_raises(rows) ==
    \E i \in 1..Len(rows) : rows[i].price_cell = "bool"

\* Variant: no line is made up when the tables yield none.
_extract_line_items_no_fallback(rows) == LinesOfRows(rows)

\* rows: the rows of the tables of the document, in order, by the quantity
\* and the amounts their cells parse to and the type of their price cell;
\* defined for rows on which it does not raise.
_extract_line_items(rows) ==
    LET lines == LinesOfRows(rows)
    IN  IF lines = << >>
        THEN <<InvoiceLine(1, 0, 0, LOCAL_PLACEHOLDER_CONFIDENCE)>>
        ELSE lines

\* _extract_invoice_date: date.label says whether the label pattern matched,
\* date.window is the date in the 20 characters after the label and date.rest
\* the date elsewhere in the content (NoDate: none); now is
\* datetime.now().date().  A date found has the confidence of its pattern,
\* 0.95 or 0.9, which the record does not keep.
_extract_invoice_date(date, now) ==
    LET search_text == IF date.label THEN date.window ELSE date.rest
    IN  IF search_text # NoDate
        THEN ExtractionResult(search_text, DATE_CONFIDENCE)
        ELSE ExtractionResult(now, UNRESOLVED_DATE_CONFIDENCE)

extract_invoice_data(doc) ==
    LET invoice_number == _extract_invoice_number(doc.number)
        invoice_date == _extract_invoice_date(doc.date, doc.now)
        supplier == _extract_company(doc.supplier)
        client == _extract_company(doc.client)
        lines == _extract_line_items(doc.rows)
        totals == _extract_totals(doc.subtotal, doc.tax, doc.total)
        overall_confidence ==
            OverallConfidence(
                invoice_number.confidence,
                IF supplier # NoCompany THEN supplier.confidence ELSE MISSING_CONFIDENCE,
                IF totals.total.value # 0 THEN totals.total.confidence
                                          ELSE MISSING_CONFIDENCE)
        requires_review ==
            \/ overall_confidence < CONFIDENCE_THRESHOLD
            \/ invoice_number.value = "UNKNOWN"
            \/ totals.total.value = 0
    IN  IF _extract_line_items_raises(doc.rows) THEN InvalidOperation ELSE
        InvoiceData(
            invoice_number.value,
            IF invoice_date.value # NoDate THEN invoice_date.value ELSE doc.now,
            IF supplier # NoCompany THEN supplier
                                    ELSE CompanyInfo("UNKNOWN", None, MISSING_CONFIDENCE),
            IF client # NoCompany THEN client
                                  ELSE CompanyInfo("UNKNOWN", None, MISSING_CONFIDENCE),
            lines,
            totals.subtotal.value,
            totals.tax.value,
            totals.total.value,
            overall_confidence,
            requires_review,
            "local", doc.now)

\* ------------------------------------------------------------------------
\* Remote extraction (ClaudeExtractionService)
\* ------------------------------------------------------------------------
\* _parse_extracted_data on a decoded JSON object: data.number is FALSE for
\* null, data.supplier / data.client say whether a name was given,
\* data.supplier_tax_id / data.client_tax_id are the identifiers given (or
\* None), amounts are in cents with Null for null, data.lines are the line
\* objects by their quantity and amounts.
Null == -1

Truthy(amount) == amount # Null /\ amount # 0

\* The lines built from the line objects; an object whose line raises
\* ValidationError (a ValueError) is skipped.
RECURSIVE LinesOfData(_)
LinesOfData(objects) ==
    IF objects = << >>
    THEN << >>
    ELSE LET line_data == Head(objects)
             line == InvoiceLine(line_data.quantity, line_data.unit_price,
                                 line_data.line_total, LLM_LINE_CONFIDENCE)
         IN  IF line # ValidationError
             THEN <<line>> \o LinesOfData(Tail(objects))
             ELSE LinesOfData(Tail(objects))

\* sum(line.line_total for line in lines)
RECURSIVE SumLineTotals(_)
SumLineTotals(lines) ==
    IF lines = << >> THEN 0
    ELSE Head(lines).line_total + SumLineTotals(Tail(lines))

_parse_extracted_data(data, now) ==
    LET supplier == CompanyInfo(IF data.supplier THEN "ACME SL" ELSE "UNKNOWN",
                                data.supplier_tax_id, LLM_COMPANY_CONFIDENCE)
        client == CompanyInfo(IF data.client THEN "CLIENTE SA" ELSE "UNKNOWN",
                              data.client_tax_id, LLM_COMPANY_CONFIDENCE)
        lines == LinesOfData(data.lines)
        \* validate and fix totals if needed
        total1 == IF data.total = Null \/ data.total = 0
                  THEN IF Truthy(data.subtotal) /\ Truthy(data.tax_amount)
                       THEN data.subtotal + data.tax_amount
                       ELSE IF lines # << >> THEN SumLineTotals(lines)
                       ELSE data.total
                  ELSE data.total
        subtotal1 == IF data.subtotal = Null /\ Truthy(total1) /\ Truthy(data.tax_amount)
                     THEN total1 - data.tax_amount
                     ELSE data.subtotal
        tax1 == IF data.tax_amount = Null /\ Truthy(total1) /\ Truthy(subtotal1)
                THEN total1 - subtotal1
                ELSE data.tax_amount
        \* default values if still None; quantized at construction
        total == IF total1 = Null THEN 0 ELSE total1
        subtotal == IF subtotal1 = Null THEN RoundHalfEven(total * 100, 121)
                                        ELSE subtotal1
        tax_amount == IF tax1 = Null
                      THEN IF subtotal1 = Null THEN RoundHalfEven(total * 21, 121)
                                               ELSE total - subtotal1
                      ELSE tax1
    IN  InvoiceData(
            IF data.number THEN "F2024" ELSE "UNKNOWN",
            IF data.invoice_date # NoDate THEN data.invoice_date ELSE now,
            supplier, client,
            IF lines # << >>
            THEN lines
            ELSE <<InvoiceLine(1, subtotal, subtotal, LLM_PLACEHOLDER_CONFIDENCE)>>,
            subtotal, tax_amount, total,
            LLM_CONFIDENCE, FALSE, "claude", now)

\* Line objects: one that parses, one whose quantity fails gt=0.
LineObjects ==
    [usable |-> [quantity |-> 2, unit_price |-> 50, line_total |-> 100],
     invalid |-> [quantity |-> 0, unit_price |-> 50, line_total |-> 0]]

\* An answer without identifiers and without lines.
PlainAnswer(n, p) ==
    [number |-> n, invoice_date |-> "2024-01-15", supplier |-> p, client |-> p,
     supplier_tax_id |-> None, client_tax_id |-> None, subtotal |-> Null, tax_amount |-> Null,
     total |-> 121, lines |-> << >>]

\* The date, identifiers and lines an answer may carry.
AnswerDetails ==
    {[invoice_date |-> "2024-01-15", supplier_tax_id |-> I12345678,
      client_tax_id |-> B12345678,
      lines |-> <<LineObjects.usable, LineObjects.invalid>>],
     [invoice_date |-> NoDate, supplier_tax_id |-> B12345678,
      client_tax_id |-> None, lines |-> <<LineObjects.invalid>>]}

\* The JSON objects the remote backend answers with.
RemoteData ==
    {PlainAnswer(n, p) : n \in BOOLEAN, p \in BOOLEAN}
    \cup {[PlainAnswer(TRUE, TRUE) EXCEPT !.invoice_date = x.invoice_date,
                                          !.supplier_tax_id = x.supplier_tax_id,
                                          !.client_tax_id = x.client_tax_id,
                                          !.lines = x.lines] : x \in AnswerDetails}

\* What one execution of the body of extract_invoice_data can raise:
\* the API call fails ("transport"), the answer is not JSON ("invalid_json",
\* raised as ValueError), or the JSON is no record ("invalid_record").
TransientErrors == {"transport"}
MalformedErrors == {"invalid_json", "invalid_record"}
RemoteErrors == TransientErrors \cup MalformedErrors

\* ------------------------------------------------------------------------
\* Orchestrator (InvoiceProcessor)
\* ------------------------------------------------------------------------
\* Variant: a document with exactly TablesLimit tables counts as complex.
_should_escalate_to_llm_inclusive(local_result, tables) ==
    \/ local_result.requires_review
    \/ local_result.confidence_score < LLM_ESCALATION_THRESHOLD
    \/ local_result.invoice_number = "UNKNOWN"
    \/ local_result.total = 0
    \/ (local_result.supplier.name = "UNKNOWN" /\ local_result.client.name = "UNKNOWN")
    \/ tables >= TablesLimit

_should_escalate_to_llm(local_result, tables) ==
    IF local_result.requires_review THEN TRUE
    ELSE IF local_result.confidence_score < LLM_ESCALATION_THRESHOLD THEN TRUE
    ELSE IF local_result.invoice_number = "UNKNOWN" THEN TRUE
    ELSE IF local_result.total = 0 THEN TRUE
    ELSE IF local_result.supplier.name = "UNKNOWN"
            /\ local_result.client.name = "UNKNOWN" THEN TRUE
    ELSE IF tables > TablesLimit THEN TRUE
    ELSE FALSE

\* Variant: the remote record is kept on equal confidence.
ChooseResult_ties_remote(llm_result, local_result) ==
    IF llm_result.confidence_score >= local_result.confidence_score
    THEN llm_result
    ELSE local_result

\* Variant: the comparison keeps the local record.
ChooseResult_keeps_local(llm_result, local_result) == local_result

\* The comparison of the two candidate records in _extract_hybrid.
ChooseResult(llm_result, local_result) ==
    IF llm_result.confidence_score > local_result.confidence_score
    THEN llm_result
    ELSE local_result

VARIABLES
    mode,            \* InvoiceProcessor.mode
    claude_available,\* claude_service.is_available
    stubbed,         \* the remote service is replaced by a test double
    pc,              \* position of the invocation of process_invoice
    force_llm,       \* argument of process_invoice
    doc,             \* docling_result
    path,            \* the strategy taken: "none", "llm", "local", "hybrid"
    local_result,    \* local_result of _extract_hybrid / the local record
    should_escalate, \* should_escalate of _extract_hybrid
    llm_result,      \* the record returned by the remote service
    result,          \* the record process_invoice returns
    attempts,        \* executions of the body of extract_invoice_data
    last_error,      \* exception of the last failed execution, or "none"
    counts,          \* how often each operation ran during the invocation
    events,          \* the events of the invocation, in order
    call,            \* a direct call of a model or service operation
    processing_status, \* processing_status of the processing endpoint
    background_tasks \* the tasks added by start_processing, not yet finished

vars == <<processing_status, background_tasks, call, mode, claude_available, stubbed, pc, force_llm, doc, path, local_result,
          should_escalate, llm_result, result, attempts, last_error, counts,
          events>>

NoDoc ==
    [number |-> 0,
     supplier |-> [found |-> FALSE, named |-> FALSE, tax |-> None],
     client |-> [found |-> FALSE, named |-> FALSE, tax |-> None],
     rows |-> << >>, subtotal |-> 0, tax |-> 0, total |-> 0, tables |-> 0,
     date |-> [label |-> FALSE, window |-> NoDate, rest |-> NoDate],
     now |-> NoDate]

\* No operation has been called directly.
NoCall == [fn |-> "none"]

\* The invoices that start requests name.
InvoiceIds == {"inv-1", "inv-2"}

\* invoice_id not in processing_status
Absent == [status |-> "absent"]

\* processing_status = {}
NoStatus == [id \in InvoiceIds |-> Absent]

NoCounts ==
    [parse |-> 0, local |-> 0, check |-> 0, remote |-> 0, after_malformed |-> 0]

\* The documents the parsing backend delivers, by what the extractors find.
SupplierSections ==
    {[found |-> FALSE, named |-> FALSE, tax |-> None],
     [found |-> TRUE, named |-> FALSE, tax |-> None],
     [found |-> TRUE, named |-> FALSE, tax |-> B12345678],
     [found |-> TRUE, named |-> TRUE, tax |-> I12345678],
     [found |-> TRUE, named |-> TRUE, tax |-> B12345678]}

ClientSections ==
    {[found |-> FALSE, named |-> FALSE, tax |-> None],
     [found |-> TRUE, named |-> TRUE, tax |-> B12345678]}

\* The amounts found after the subtotal, tax and total keywords (0: none).
FoundAmounts ==
    {[subtotal |-> 0, tax |-> 0, total |-> 0],
     [subtotal |-> 0, tax |-> 0, total |-> 121],
     [subtotal |-> 100, tax |-> 21, total |-> 0],
     [subtotal |-> 100, tax |-> 21, total |-> 121]}

TableCounts == {0} \cup (TablesLimit..MaxTables)

\* Table rows: one with amounts, one without price and total (dropped), one
\* whose quantity fails gt=0 (skipped).
TableRows ==
    [usable |-> [quantity |-> 2, unit_price |-> 50, line_total |-> 100,
                 price_cell |-> "str"],
     unpriced |-> [quantity |-> 1, unit_price |-> 0, line_total |-> 0,
                   price_cell |-> "str"],
     invalid |-> [quantity |-> 0, unit_price |-> 50, line_total |-> 100,
                  price_cell |-> "str"]]

\* The rows of the tables of a document whose tables have rows.
RowLists ==
    {<<TableRows.unpriced>>,
     <<TableRows.invalid>>,
     <<TableRows.usable, TableRows.unpriced, TableRows.usable>>}

\* What a document holds of its invoice date: after the label, elsewhere,
\* elsewhere with a label that no date follows, or nowhere.
DateSections ==
    {[label |-> TRUE, window |-> d, rest |-> NoDate] : d \in Days}
    \cup {[label |-> FALSE, window |-> NoDate, rest |-> d] : d \in Days \cup {NoDate}}
    \cup {[label |-> TRUE, window |-> NoDate, rest |-> d] : d \in Days \cup {NoDate}}

\* Documents without rows in their tables, dated the day before they are
\* processed.
PlainDocs ==
    {[number |-> n, supplier |-> s, client |-> c, rows |-> << >>,
      subtotal |-> a.subtotal, tax |-> a.tax, total |-> a.total, tables |-> t,
      date |-> [label |-> TRUE, window |-> "2024-01-15", rest |-> NoDate],
      now |-> "2024-01-16"] :
        n \in 0..4, s \in SupplierSections, c \in ClientSections,
        a \in FoundAmounts, t \in TableCounts}

\* Documents with rows in their tables: those whose parties are named.
RowDocs ==
    {[d EXCEPT !.rows = r] :
        d \in {x \in PlainDocs : /\ x.tables > 0
                                  /\ x.number \in {0, 1, 3}
                                  /\ x.supplier.named
                                  /\ x.client.found
                                  /\ (x.total = 0 <=> x.subtotal = 0)},
        r \in RowLists}

\* Documents that differ in their date and in the day they are processed.
DateDocs ==
    {[d EXCEPT !.date = s, !.now = n] :
        d \in {x \in PlainDocs : /\ x.tables = 0
                                  /\ x.number \in {0, 1}
                                  /\ x.supplier.named
                                  /\ x.supplier.tax = B12345678
                                  /\ x.client.found
                                  /\ x.total # 0
                                  /\ x.subtotal # 0},
        s \in DateSections, n \in Days}

\* Documents whose three amounts are all found and do not add up: the tax
\* keyword is followed by the total, or by another figure.
AmountDocs ==
    {[d EXCEPT !.subtotal = a.subtotal, !.tax = a.tax, !.total = a.total] :
        d \in {x \in PlainDocs : /\ x.tables = 0
                                  /\ x.number \in {0, 1}
                                  /\ x.supplier.named
                                  /\ x.supplier.tax = B12345678
                                  /\ x.client.found
                                  /\ x.total # 0
                                  /\ x.subtotal # 0},
        a \in {[subtotal |-> 100, tax |-> 121, total |-> 121],
               [subtotal |-> 100, tax |-> 42, total |-> 121]}}

Docs == PlainDocs \cup RowDocs \cup DateDocs \cup AmountDocs

\* The records a test double of the remote service answers with.
StubConfidences == {700, 2101, 2650, LLM_CONFIDENCE, DEFAULT_CONFIDENCE}

StubRecords ==
    {InvoiceData("F2024", "2024-01-15",
                 CompanyInfo("ACME SL", None, LLM_COMPANY_CONFIDENCE),
                 CompanyInfo("CLIENTE SA", None, LLM_COMPANY_CONFIDENCE),
                 <<InvoiceLine(1, 100, 100, LLM_LINE_CONFIDENCE)>>,
                 100, 21, 121, c, FALSE, "stub", "2024-01-16") : c \in StubConfidences}

\* The records the remote service builds from the answers, by the day.
ParsedRecords == [now \in Days |-> {_parse_extracted_data(d, now) : d \in RemoteData}]

RemoteRecords == IF stubbed THEN StubRecords ELSE ParsedRecords[doc.now]

Count(op) == [counts EXCEPT ![op] = @ + 1]

\* InvoiceProcessor.__init__ with the settings and the service of the process.
Init ==
    /\ \E extraction_mode \in Modes, api_key \in BOOLEAN :
          /\ mode = effective_extraction_mode(extraction_mode, api_key)
          /\ claude_available = api_key
    /\ stubbed = FALSE
    /\ pc = "idle"
    /\ force_llm = FALSE
    /\ doc = NoDoc
    /\ path = "none"
    /\ local_result = NoRecord
    /\ should_escalate = FALSE
    /\ llm_result = NoRecord
    /\ result = NoRecord
    /\ attempts = 0
    /\ last_error = "none"
    /\ counts = NoCounts
    /\ events = << >>
    /\ call = NoCall
    /\ processing_status = NoStatus
    /\ background_tasks = << >>

\* The processor under test: mode assigned directly, the remote service
\* replaced by a double that is available or not and answers any record.
InitStub ==
    /\ mode \in Modes
    /\ claude_available \in BOOLEAN
    /\ stubbed = TRUE
    /\ pc = "idle"
    /\ force_llm = FALSE
    /\ doc = NoDoc
    /\ path = "none"
    /\ local_result = NoRecord
    /\ should_escalate = FALSE
    /\ llm_result = NoRecord
    /\ result = NoRecord
    /\ attempts = 0
    /\ last_error = "none"
    /\ counts = NoCounts
    /\ events = << >>
    /\ call = NoCall
    /\ processing_status = NoStatus
    /\ background_tasks = << >>

\* process_invoice up to the await of _parse_document.
process_invoice ==
    /\ pc = "idle"
    /\ \E force \in BOOLEAN, exists \in BOOLEAN :
          /\ force_llm' = force
          /\ pc' = IF exists THEN "parsing" ELSE "raised"
    /\ UNCHANGED <<processing_status, background_tasks, call, mode, claude_available, stubbed, doc, path, local_result,
                   should_escalate, llm_result, result, attempts, last_error,
                   counts, events>>

\* _parse_document: the parsing backend delivers a document or raises.
_parse_document ==
    /\ pc = "parsing"
    /\ \E ok \in BOOLEAN, d \in Docs :
          IF ok
          THEN /\ doc' = d
               /\ pc' = "strategy"
               /\ counts' = Count("parse")
          ELSE /\ pc' = "raised"
               /\ UNCHANGED <<doc, counts>>
    /\ UNCHANGED <<processing_status, background_tasks, call, mode, claude_available, stubbed, force_llm, path, local_result,
                   should_escalate, llm_result, result, attempts, last_error,
                   events>>

\* Variant: force_llm is ignored.
Strategy_ignores_force(m, force) ==
    IF m = "llm_only" THEN "llm"
    ELSE IF m = "local_only" THEN "local"
    ELSE "hybrid"

\* Step 2 of process_invoice: the extraction strategy.
Strategy(m, force) ==
    IF m = "llm_only" \/ force THEN "llm"
    ELSE IF m = "local_only" THEN "local"
    ELSE "hybrid"

\* _extract_locally, called from process_invoice in local_only mode.
_extract_locally ==
    /\ pc = "strategy"
    /\ Strategy(mode, force_llm) = "local"
    /\ path' = "local"
    /\ local_result' = extract_invoice_data(doc)
    /\ result' = extract_invoice_data(doc)
    /\ counts' = Count("local")
    /\ events' = events \o <<"LocalExtracted", "Final">>
    /\ pc' = "done"
    /\ UNCHANGED <<processing_status, background_tasks, call, mode, claude_available, stubbed, force_llm, doc,
                   should_escalate, llm_result, attempts, last_error>>

\* _extract_with_llm up to the await of the remote service.
_extract_with_llm ==
    /\ pc = "strategy"
    /\ Strategy(mode, force_llm) = "llm"
    /\ path' = "llm"
    /\ IF ~claude_available
       THEN /\ local_result' = extract_invoice_data(doc)
            /\ result' = extract_invoice_data(doc)
            /\ counts' = Count("local")
            /\ events' = events \o <<"LocalExtracted", "Final">>
            /\ pc' = "done"
       ELSE /\ counts' = Count("remote")
            /\ events' = Append(events, "RemoteCall")
            /\ pc' = "remote"
            /\ UNCHANGED <<local_result, result>>
    /\ UNCHANGED <<processing_status, background_tasks, call, mode, claude_available, stubbed, force_llm, doc,
                   should_escalate, llm_result, attempts, last_error>>

\* Variant: escalation does not ask whether the remote service is available.
_extract_hybrid_unguarded ==
    /\ pc = "strategy"
    /\ Strategy(mode, force_llm) = "hybrid"
    /\ path' = "hybrid"
    /\ LET local == extract_invoice_data(doc)
           escalate == _should_escalate_to_llm(local, doc.tables)
       IN  /\ local_result' = local
           /\ should_escalate' = escalate
           /\ IF escalate
              THEN /\ counts' = [counts EXCEPT !["local"] = @ + 1,
                                               !["check"] = @ + 1,
                                               !["remote"] = @ + 1]
                   /\ events' = events \o <<"LocalExtracted", "EscalationCheck",
                                            "Escalate", "RemoteCall">>
                   /\ pc' = "remote"
                   /\ UNCHANGED result
              ELSE /\ counts' = [counts EXCEPT !["local"] = @ + 1,
                                               !["check"] = @ + 1]
                   /\ events' = events \o <<"LocalExtracted", "EscalationCheck",
                                            "Accept", "Final">>
                   /\ result' = local
                   /\ pc' = "done"
    /\ UNCHANGED <<processing_status, background_tasks, call, mode, claude_available, stubbed, force_llm, doc, llm_result,
                   attempts, last_error>>

\* Variant: the remote service is called first and local extraction runs
\* only afterwards, when the answer is compared.
_extract_hybrid_remote_first ==
    /\ pc = "strategy"
    /\ Strategy(mode, force_llm) = "hybrid"
    /\ path' = "hybrid"
    /\ local_result' = extract_invoice_data(doc)
    /\ should_escalate' = TRUE
    /\ counts' = [counts EXCEPT !["remote"] = @ + 1, !["local"] = @ + 1,
                                !["check"] = @ + 1]
    /\ events' = events \o <<"Escalate", "RemoteCall", "LocalExtracted",
                             "EscalationCheck">>
    /\ pc' = "remote"
    /\ UNCHANGED <<processing_status, background_tasks, call, mode, claude_available, stubbed, force_llm, doc, llm_result,
                   result, attempts, last_error>>

\* _extract_hybrid up to the await of the remote service, or to its return
\* when there is no escalation.
_extract_hybrid ==
    /\ pc = "strategy"
    /\ Strategy(mode, force_llm) = "hybrid"
    /\ path' = "hybrid"
    /\ LET local == extract_invoice_data(doc)
           escalate == _should_escalate_to_llm(local, doc.tables)
       IN  /\ local_result' = local
           /\ should_escalate' = escalate
           /\ IF escalate /\ claude_available
              THEN /\ counts' = [counts EXCEPT !["local"] = @ + 1,
                                               !["check"] = @ + 1,
                                               !["remote"] = @ + 1]
                   /\ events' = events \o <<"LocalExtracted", "EscalationCheck",
                                            "Escalate", "RemoteCall">>
                   /\ pc' = "remote"
                   /\ UNCHANGED result
              ELSE /\ counts' = [counts EXCEPT !["local"] = @ + 1,
                                               !["check"] = @ + 1]
                   /\ events' = events \o <<"LocalExtracted", "EscalationCheck",
                                            "Accept", "Final">>
                   /\ result' = local
                   /\ pc' = "done"
    /\ UNCHANGED <<processing_status, background_tasks, call, mode, claude_available, stubbed, force_llm, doc, llm_result,
                   attempts, last_error>>

\* Variant: the decorator allows one attempt more.
stop_after_attempt_late(attempt_number) == attempt_number >= MaxAttempts + 1

\* stop=stop_after_attempt(3) of the retry decorator.
stop_after_attempt(attempt_number) == attempt_number >= MaxAttempts

\* The retry decorator names no exception type: every exception is retried.
retry_if_exception(error) == TRUE

\* One execution of the body of extract_invoice_data inside the retry loop:
\* it returns a record or raises; the decorator then stops (reraise=True) or
\* waits for the next attempt.
extract_invoice_data_attempt ==
    /\ pc = "remote"
    /\ attempts' = attempts + 1
    /\ counts' = IF last_error \in MalformedErrors
                 THEN Count("after_malformed") ELSE counts
    /\ \E outcome \in IF claude_available THEN RemoteErrors \cup {"ok"}
                                          ELSE {"not_configured"} :
          IF outcome = "ok"
          THEN \E r \in RemoteRecords :
                  /\ llm_result' = r
                  /\ last_error' = "none"
                  /\ pc' = "returned"
          ELSE /\ last_error' = outcome
               /\ pc' = IF retry_if_exception(outcome)
                           /\ ~stop_after_attempt(attempts + 1)
                        THEN "backoff" ELSE "failed"
               /\ UNCHANGED llm_result
    /\ UNCHANGED <<processing_status, background_tasks, call, mode, claude_available, stubbed, force_llm, doc, path,
                   local_result, should_escalate, result, events>>

\* wait=wait_exponential(...): the sleep between two attempts.
wait_exponential ==
    /\ pc = "backoff"
    /\ pc' = "remote"
    /\ UNCHANGED <<processing_status, background_tasks, call, mode, claude_available, stubbed, force_llm, doc, path,
                   local_result, should_escalate, llm_result, result, attempts,
                   last_error, counts, events>>

\* _extract_hybrid after the remote service returned: compare and choose.
_extract_hybrid_compare ==
    /\ pc = "returned"
    /\ path = "hybrid"
    /\ result' = ChooseResult(llm_result, local_result)
    /\ events' = Append(events, "Final")
    /\ pc' = "done"
    /\ UNCHANGED <<processing_status, background_tasks, call, mode, claude_available, stubbed, force_llm, doc, path,
                   local_result, should_escalate, llm_result, attempts,
                   last_error, counts>>

\* Variant: after a remote failure the local extraction is run again.
_extract_hybrid_except_rerun ==
    /\ pc = "failed"
    /\ path = "hybrid"
    /\ result' = extract_invoice_data(doc)
    /\ counts' = Count("local")
    /\ events' = events \o <<"LocalExtracted", "Final">>
    /\ pc' = "done"
    /\ UNCHANGED <<processing_status, background_tasks, call, mode, claude_available, stubbed, force_llm, doc, path,
                   local_result, should_escalate, llm_result, attempts,
                   last_error>>

\* Variant: after a remote failure the remote service is called again.
_extract_hybrid_except_recall ==
    /\ pc = "failed"
    /\ path = "hybrid"
    /\ counts' = Count("remote")
    /\ events' = Append(events, "RemoteCall")
    /\ attempts' = 0
    /\ last_error' = "none"
    /\ pc' = "remote"
    /\ UNCHANGED <<processing_status, background_tasks, call, mode, claude_available, stubbed, force_llm, doc, path,
                   local_result, should_escalate, llm_result, result>>

\* _extract_hybrid, except Exception: keep the local result.
_extract_hybrid_except ==
    /\ pc = "failed"
    /\ path = "hybrid"
    /\ result' = local_result
    /\ events' = Append(events, "Final")
    /\ pc' = "done"
    /\ UNCHANGED <<processing_status, background_tasks, call, mode, claude_available, stubbed, force_llm, doc, path,
                   local_result, should_escalate, llm_result, attempts,
                   last_error, counts>>

\* _extract_with_llm after the remote service returned.
_extract_with_llm_return ==
    /\ pc = "returned"
    /\ path = "llm"
    /\ result' = llm_result
    /\ events' = Append(events, "Final")
    /\ pc' = "done"
    /\ UNCHANGED <<processing_status, background_tasks, call, mode, claude_available, stubbed, force_llm, doc, path,
                   local_result, should_escalate, llm_result, attempts,
                   last_error, counts>>

\* _extract_with_llm has no handler: the exception of the remote service
\* leaves process_invoice.
_extract_with_llm_raise ==
    /\ pc = "failed"
    /\ path = "llm"
    /\ pc' = "raised"
    /\ UNCHANGED <<processing_status, background_tasks, call, mode, claude_available, stubbed, force_llm, doc, path,
                   local_result, should_escalate, llm_result, result, attempts,
                   last_error, counts, events>>

Next ==
    \/ process_invoice
    \/ _parse_document
    \/ _extract_locally
    \/ _extract_with_llm
    \/ _extract_hybrid
    \/ extract_invoice_data_attempt
    \/ wait_exponential
    \/ _extract_hybrid_compare
    \/ _extract_hybrid_except
    \/ _extract_with_llm_return
    \/ _extract_with_llm_raise

Spec == Init /\ [][Next]_vars

\* Every awaited operation of an invocation completes.
FairSpec == Init /\ [][Next]_vars /\ WF_vars(Next)

\* The processor with the remote service replaced by a test double.
SpecStub == InitStub /\ [][Next]_vars

Terminated == pc \in {"done", "raised"}

TypeOK ==
    /\ mode \in Modes
    /\ claude_available \in BOOLEAN
    /\ stubbed \in BOOLEAN
    /\ pc \in {"idle", "parsing", "strategy", "remote", "backoff", "returned",
               "failed", "done", "raised"}
    /\ force_llm \in BOOLEAN
    /\ path \in {"none", "llm", "local", "hybrid"}
    /\ attempts \in 0..MaxAttempts
    /\ last_error \in RemoteErrors \cup {"none", "not_configured"}

\* ------------------------------------------------------------------------
\* Direct calls of the models and of the local service
\* ------------------------------------------------------------------------
\* confidence_score arguments, in units of 1/3000 (ge=0.0, le=1.0).
ConfidenceArgs == {0, 1500, 2099, 2100, 2101, 2700, DEFAULT_CONFIDENCE, 3001}

\* subtotal, tax_amount and total arguments, in cents.
AmountArgs ==
    {[subtotal |-> 10000, tax_amount |-> 2100, total |-> t] :
        t \in {12100, 12101, 12102, 12103, 20000, 0}}

\* InvoiceData(...) called with explicit arguments, as the model tests do.
InvoiceData_call ==
    /\ call = NoCall
    /\ \E c \in ConfidenceArgs, rr \in BOOLEAN, a \in AmountArgs :
          LET args == [subtotal |-> a.subtotal, tax_amount |-> a.tax_amount,
                       total |-> a.total, confidence_score |-> c,
                       requires_review |-> rr]
          IN  call' = [fn |-> "InvoiceData", args |-> args,
                       ret |-> IF c \in 0..DEFAULT_CONFIDENCE
                               THEN InvoiceData("TEST", "2024-01-15",
                                                CompanyInfo("Test", None, 100),
                                                CompanyInfo("Test", None, 100), << >>,
                                                a.subtotal, a.tax_amount, a.total,
                                                c, rr, "caller", "2024-01-16")
                               ELSE ValidationError]
    /\ UNCHANGED <<processing_status, background_tasks, mode, claude_available, stubbed, pc, force_llm, doc, path,
                   local_result, should_escalate, llm_result, result, attempts,
                   last_error, counts, events>>

\* quantity, unit_price and line_total arguments (units, cents, cents).
LineArgs ==
    {[quantity |-> q, unit_price |-> u, line_total |-> t] :
        q \in {0, 1, 5}, u \in {0, 1000}, t \in {0, 1000, 5000, 5001, 5002}}

\* InvoiceLine(...) called with explicit arguments.
InvoiceLine_call ==
    /\ call = NoCall
    /\ \E a \in LineArgs, c \in {50, 100, 101} :
          call' = [fn |-> "InvoiceLine",
                   args |-> [quantity |-> a.quantity, unit_price |-> a.unit_price,
                             line_total |-> a.line_total, confidence |-> c],
                   ret |-> InvoiceLine(a.quantity, a.unit_price, a.line_total, c)]
    /\ UNCHANGED <<processing_status, background_tasks, mode, claude_available, stubbed, pc, force_llm, doc, path,
                   local_result, should_escalate, llm_result, result, attempts,
                   last_error, counts, events>>

\* tax_id arguments: as printed on documents, with lower-case letters,
\* hyphens and blanks.
TaxIdArgs ==
    {None,
     B12345678,
     <<"b", "1", "2", "3", "4", "5", "6", "7", "8">>,
     <<"b", "-", "1", "2", "3", "4", "-", "5", "6", "7", "8">>,
     <<"B", " ", "1", "2", "3", "4", "5", "6", "7", "8">>,
     <<"1", "2", "3", "4", "5", "6", "7", "8", "-", "a">>}

\* CompanyInfo(name=..., tax_id=...) called with explicit arguments.
CompanyInfo_call ==
    /\ call = NoCall
    /\ \E t \in TaxIdArgs, n \in {"Test Company", "UNKNOWN"} :
          call' = [fn |-> "CompanyInfo",
                   args |-> [name |-> n, tax_id |-> t],
                   ret |-> CompanyInfo(n, t, 100)]
    /\ UNCHANGED <<processing_status, background_tasks, mode, claude_available, stubbed, pc, force_llm, doc, path,
                   local_result, should_escalate, llm_result, result, attempts,
                   last_error, counts, events>>

\* Arguments of the validator: a first character, a middle of 6, 7 or 8
\* characters and a last character, or None.
ValidatorFirst == {"A", "B", "I", "K", "O", "W", "X", "Z", "1", "9", "b", "-"}

ValidatorMiddles ==
    {<<"1", "2", "3", "4", "5", "6", "7">>,
     <<"1", "2", "3", "4", "5", "6", "A">>,
     <<"1", "2", "3", "4", "5", "6">>,
     <<"1", "2", "3", "4", "5", "6", "7", "8">>}

ValidatorLast == {"A", "J", "K", "Z", "0", "9", "a", "-"}

ValidatorArgs ==
    {None} \cup {<<f>> \o m \o <<l>> :
                    f \in ValidatorFirst, m \in ValidatorMiddles, l \in ValidatorLast}

\* _validate_tax_id(tax_id) called directly.
_validate_tax_id_call ==
    /\ call = NoCall
    /\ \E t \in ValidatorArgs :
          call' = [fn |-> "_validate_tax_id", args |-> [tax_id |-> t],
                   ret |-> _validate_tax_id(t)]
    /\ UNCHANGED <<processing_status, background_tasks, mode, claude_available, stubbed, pc, force_llm, doc, path,
                   local_result, should_escalate, llm_result, result, attempts,
                   last_error, counts, events>>

\* Amount texts: every text of digits and separators up to MaxAmountLen
\* characters, and the texts of the tests and of table cells.
AmountChars == {"1", "5", ".", ","}

ExampleTexts ==
    {<<"1", ".", "2", "3", "4", ",", "5", "6">>,
     <<"1", "0", "0", ",", "0", "0">>,
     <<"1", ".", "0", "0", "0", ",", "0", "0", " ", "€">>,
     <<"1", ",", "2", "3", "4", ".", "5", "6">>,
     <<"1", "0", "0", ".", "0", "0">>,
     <<"1", ".", "2", "3", "4", ".", "5", "6", "7", ",", "8">>,
     <<"$", " ", "1", "2", ",", "5">>,
     <<"-", "5", ",", "0", "0">>,
     <<"1", ",", "0", "0", "5">>,
     <<"2", ",", "6", "7", "5">>,
     <<"a", "b", "c">>,
     <<"1", "2", "x">>,
     <<"N", "a", "N">>,
     <<"€">>}

AmountTexts ==
    ExampleTexts \cup UNION {[1..k -> AmountChars] : k \in 0..MaxAmountLen}

\* _parse_decimal(value) called directly on a text.
_parse_decimal_call ==
    /\ call = NoCall
    /\ \E t \in AmountTexts :
          call' = [fn |-> "_parse_decimal", args |-> [value |-> t],
                   ret |-> _parse_decimal(t)]
    /\ UNCHANGED <<processing_status, background_tasks, mode, claude_available, stubbed, pc, force_llm, doc, path,
                   local_result, should_escalate, llm_result, result, attempts,
                   last_error, counts, events>>

\* The amounts found after the subtotal, tax and total keywords (0: none),
\* in cents; a tax window that ends in the total gives tax = total.
TotalsArgs ==
    {[subtotal |-> s, tax |-> t, total |-> u] :
        s \in {0, 100, 200}, t \in {0, 21, 121}, u \in {0, 121, 242}}

\* _extract_totals called directly on a content with the amounts of a.
_extract_totals_call ==
    /\ call = NoCall
    /\ \E a \in TotalsArgs :
          call' = [fn |-> "_extract_totals", args |-> a,
                   ret |-> _extract_totals(a.subtotal, a.tax, a.total)]
    /\ UNCHANGED <<processing_status, background_tasks, mode, claude_available, stubbed, pc, force_llm, doc, path,
                   local_result, should_escalate, llm_result, result, attempts,
                   last_error, counts, events>>

total_keywords == <<"total", "importe total", "total factura", "total a pagar">>

subtotal_keywords == <<"subtotal", "base imponible", "base", "suma">>

tax_keywords == <<"iva", "impuesto", "i.v.a.", "tax">>

Keywords ==
    {"total", "importe total", "total factura", "total a pagar", "subtotal",
     "base imponible", "base", "suma", "iva", "impuesto", "i.v.a.", "tax"}

A87654321 == <<"A", "8", "7", "6", "5", "4", "3", "2", "1">>

\* sample_tables of the tests: quantity, unit price and total of each row.
sample_tables ==
    <<[quantity |-> 10, unit_price |-> 10000, line_total |-> 100000,
       price_cell |-> "str"],
      [quantity |-> 5, unit_price |-> 20000, line_total |-> 100000,
       price_cell |-> "str"]>>

\* A table whose second row has the boolean True in the price column.
boolean_cell_tables ==
    <<sample_tables[1],
      [quantity |-> 5, unit_price |-> 0, line_total |-> 100000,
       price_cell |-> "bool"]>>

\* sample_invoice_text of the tests, by what the patterns match in it:
\* number_matches[p] is the group of the first match of invoice-number
\* pattern p, find[k] is content_lower.find(k), amounts are the matches of
\* amount_pattern from the first keyword on, with their offsets.  The label
\* pattern of the date does not match (fewer than 20 characters follow on
\* the line) and no section keyword with its colon occurs.
SampleInvoiceText ==
    [number_matches |-> <<None, <<"N", "º">>, None, None>>,
     find |-> [k \in Keywords |->
                 CASE k = "base imponible" -> 426
                   [] k = "base" -> 426
                   [] k = "iva" -> 457
                   [] k = "total" -> 283
                   [] OTHER -> -1],
     amounts |-> <<[start |-> 351, stop |-> 353, text |-> <<"1", "0">>],
                   [start |-> 356, stop |-> 362, text |-> <<"1", "0", "0", ",", "0", "0">>],
                   [start |-> 367, stop |-> 375, text |-> <<"1", ".", "0", "0", "0", ",", "0", "0">>],
                   [start |-> 395, stop |-> 396, text |-> <<"5">>],
                   [start |-> 399, stop |-> 405, text |-> <<"2", "0", "0", ",", "0", "0">>],
                   [start |-> 410, stop |-> 418, text |-> <<"1", ".", "0", "0", "0", ",", "0", "0">>],
                   [start |-> 444, stop |-> 452, text |-> <<"2", ".", "0", "0", "0", ",", "0", "0">>],
                   [start |-> 462, stop |-> 464, text |-> <<"2", "1">>],
                   [start |-> 470, stop |-> 476, text |-> <<"4", "2", "0", ",", "0", "0">>],
                   [start |-> 490, stop |-> 498, text |-> <<"2", ".", "4", "2", "0", ",", "0", "0">>]>>,
     date |-> [label |-> FALSE, window |-> NoDate, rest |-> "2024-01-15"],
     supplier |-> [found |-> FALSE, named |-> FALSE, tax |-> None],
     client |-> [found |-> FALSE, named |-> FALSE, tax |-> None],
     rows |-> sample_tables, tables |-> 1]

\* The same invoice written with plain labels ("Nº Factura: F2024-00123",
\* "Emisor:", "Cliente:", "Base imponible: 2.000,00", "IVA: 420,00",
\* "Total: 2.420,00"), each amount more than 50 characters before the next.
PlainInvoiceText ==
    [number_matches |-> <<<<"F", "2", "0", "2", "4", "-", "0", "0", "1", "2", "3">>, <<"F", "a", "c", "t", "u", "r", "a">>, None, None>>,
     find |-> [k \in Keywords |->
                 CASE k = "base imponible" -> 156
                   [] k = "base" -> 156
                   [] k = "iva" -> 249
                   [] k = "total" -> 329
                   [] OTHER -> -1],
     amounts |-> <<[start |-> 172, stop |-> 180, text |-> <<"2", ".", "0", "0", "0", ",", "0", "0">>],
                   [start |-> 254, stop |-> 260, text |-> <<"4", "2", "0", ",", "0", "0">>],
                   [start |-> 336, stop |-> 344, text |-> <<"2", ".", "4", "2", "0", ",", "0", "0">>]>>,
     date |-> [label |-> TRUE, window |-> "2024-01-15", rest |-> NoDate],
     supplier |-> [found |-> TRUE, named |-> TRUE, tax |-> B12345678],
     client |-> [found |-> TRUE, named |-> TRUE, tax |-> A87654321],
     rows |-> sample_tables, tables |-> 1]

\* The plainly labelled invoice with that table.
BooleanCellText == [PlainInvoiceText EXCEPT !.rows = boolean_cell_tables]

Contents == {SampleInvoiceText, PlainInvoiceText, BooleanCellText}

\* re.search(r'\d', value)
HasDigit(value) == \E i \in 1..Len(value) : value[i] \in Digits

\* The loop of _extract_invoice_number from pattern p on: the first pattern
\* whose first match has a digit and at least 3 characters (0: none).
RECURSIVE AcceptedNumberPattern(_, _)
AcceptedNumberPattern(matches, p) ==
    IF p > Len(matches) THEN 0
    ELSE IF matches[p] # None /\ HasDigit(matches[p])
            /\ Len(matches[p]) >= MIN_NUMBER_LENGTH
    THEN p
    ELSE AcceptedNumberPattern(matches, p + 1)

\* amount_pattern.findall(content[pos:pos + 50])
AmountsInWindow(content, pos) ==
    SelectSeq(content.amounts,
              LAMBDA m : m.start >= pos /\ m.stop <= pos + AMOUNT_WINDOW)

\* The loop of _extract_amount_near_keywords over the keywords, on the
\* content itself: the last amount in the 50 characters from the first
\* occurrence of a keyword, if it parses to more than 0; else the next
\* keyword; 0 when none yields an amount.
RECURSIVE AmountNearKeywords(_, _)
AmountNearKeywords(content, keywords) ==
    IF keywords = << >> THEN 0
    ELSE LET pos == content.find[Head(keywords)]
             amounts == IF pos = -1 THEN << >> ELSE AmountsInWindow(content, pos)
             amount == IF amounts = << >> THEN Amount(0)
                       ELSE _parse_decimal(amounts[Len(amounts)].text)
         IN  IF ~amount.nan /\ amount.cents > 0
             THEN amount.cents
             ELSE AmountNearKeywords(content, Tail(keywords))

\* What the extractors find in a content processed on 2024-01-16.
FoundIn(content) ==
    [number |-> AcceptedNumberPattern(content.number_matches, 1),
     supplier |-> content.supplier,
     client |-> content.client,
     rows |-> content.rows,
     subtotal |-> AmountNearKeywords(content, subtotal_keywords),
     tax |-> AmountNearKeywords(content, tax_keywords),
     total |-> AmountNearKeywords(content, total_keywords),
     tables |-> content.tables,
     date |-> content.date,
     now |-> "2024-01-16"]

\* LocalExtractionService.extract_invoice_data called directly on a content.
extract_invoice_data_call ==
    /\ call = NoCall
    /\ \E content \in Contents :
          call' = [fn |-> "extract_invoice_data", args |-> content,
                   ret |-> extract_invoice_data(FoundIn(content))]
    /\ UNCHANGED <<processing_status, background_tasks, mode, claude_available, stubbed, pc, force_llm, doc, path,
                   local_result, should_escalate, llm_result, result, attempts,
                   last_error, counts, events>>

\* A caller of the models and the local service; no invoice is processed.
InitUnit ==
    /\ mode = "local_only"
    /\ claude_available = FALSE
    /\ stubbed = FALSE
    /\ pc = "idle"
    /\ force_llm = FALSE
    /\ doc = NoDoc
    /\ path = "none"
    /\ local_result = NoRecord
    /\ should_escalate = FALSE
    /\ llm_result = NoRecord
    /\ result = NoRecord
    /\ attempts = 0
    /\ last_error = "none"
    /\ counts = NoCounts
    /\ events = << >>
    /\ call = NoCall
    /\ processing_status = NoStatus
    /\ background_tasks = << >>

NextUnit ==
    \/ InvoiceData_call
    \/ InvoiceLine_call
    \/ CompanyInfo_call
    \/ _validate_tax_id_call
    \/ _parse_decimal_call
    \/ _extract_totals_call
    \/ extract_invoice_data_call

SpecUnit == InitUnit /\ [][NextUnit]_vars

\* The direct call returned a value of the model, not an exception.
Constructed(fn) == call.fn = fn /\ call.ret # ValidationError

\* ------------------------------------------------------------------------
\* The processing endpoint (api/endpoints/process.py)
\* ------------------------------------------------------------------------
\* An entry of processing_status; data is "none" or "invoice_data".
StatusEntry(status, progress, message, data) ==
    [status |-> status, progress |-> progress, message |-> message, data |-> data]

InvoiceProcessingStatus(invoice_id, status, progress, message, data) ==
    [invoice_id |-> invoice_id, status |-> status, progress |-> progress,
     message |-> message, data |-> data]

HTTPException(status_code) == [error |-> "HTTPException", status_code |-> status_code]

\* Variant: a start request never finds the invoice started.
AlreadyStarted_never(entry) == FALSE

\* The check of start_processing: the invoice is being processed or has
\* been processed.
AlreadyStarted(entry) ==
    entry # Absent /\ entry.status \in {"processing", "completed"}

\* The sequence without its element i.
WithoutTask(tasks, i) ==
    SubSeq(tasks, 1, i - 1) \o SubSeq(tasks, i + 1, Len(tasks))

\* POST /process/{invoice_id}; uploaded: a file of the invoice is in the
\* upload directory.  The handler has no await: it runs as one step.
start_processing_request(invoice_id, uploaded) ==
    LET entry == processing_status[invoice_id]
    IN  /\ IF ~uploaded
           THEN /\ call' = [fn |-> "start_processing", args |-> invoice_id,
                            ret |-> HTTPException(404)]
                /\ UNCHANGED <<processing_status, background_tasks>>
           ELSE IF AlreadyStarted(entry)
           THEN /\ call' = [fn |-> "start_processing", args |-> invoice_id,
                            ret |-> IF entry.status = "processing"
                                    THEN InvoiceProcessingStatus(
                                             invoice_id, "processing", entry.progress,
                                             "Processing already in progress", "none")
                                    ELSE InvoiceProcessingStatus(
                                             invoice_id, "completed", 100,
                                             "Already processed", entry.data)]
                /\ UNCHANGED <<processing_status, background_tasks>>
           ELSE /\ Len(background_tasks) < MaxTasks
                /\ processing_status' =
                       [processing_status EXCEPT ![invoice_id] =
                           StatusEntry("processing", 0, "Processing started", "none")]
                /\ background_tasks' =
                       Append(background_tasks, [invoice_id |-> invoice_id, pc |-> "start"])
                /\ call' = [fn |-> "start_processing", args |-> invoice_id,
                            ret |-> InvoiceProcessingStatus(
                                        invoice_id, "processing", 0,
                                        "Processing started", "none")]
        /\ UNCHANGED <<mode, claude_available, stubbed, pc, force_llm, doc, path,
                       local_result, should_escalate, llm_result, result,
                       attempts, last_error, counts, events>>

start_processing ==
    \E invoice_id \in InvoiceIds, uploaded \in BOOLEAN :
        start_processing_request(invoice_id, uploaded)

\* The except branch of process_invoice_task: the task ends with an error entry.
TaskFails(i) ==
    /\ processing_status' =
           [processing_status EXCEPT ![background_tasks[i].invoice_id] =
               StatusEntry("error", 0, "Processing failed", "none")]
    /\ background_tasks' = WithoutTask(background_tasks, i)

\* process_invoice_task: the first assignment of the status entry.
process_invoice_task_begin ==
    /\ \E i \in 1..Len(background_tasks) :
          /\ background_tasks[i].pc = "start"
          /\ processing_status' =
                 [processing_status EXCEPT ![background_tasks[i].invoice_id] =
                     StatusEntry("processing", 0, "Starting OCR extraction...", "none")]
          /\ background_tasks' = [background_tasks EXCEPT ![i].pc = "ocr"]
    /\ UNCHANGED <<call, mode, claude_available, stubbed, pc, force_llm, doc, path,
                   local_result, should_escalate, llm_result, result, attempts,
                   last_error, counts, events>>

\* process_invoice_task, step 1: OCR raises, or progress becomes 40.
process_invoice_task_ocr ==
    /\ \E i \in 1..Len(background_tasks), raises \in BOOLEAN :
          /\ background_tasks[i].pc = "ocr"
          /\ IF raises
             THEN TaskFails(i)
             ELSE /\ processing_status' =
                         [processing_status EXCEPT ![background_tasks[i].invoice_id] =
                             [@ EXCEPT !.progress = 40,
                                       !.message = "OCR completed, extracting entities..."]]
                  /\ background_tasks' = [background_tasks EXCEPT ![i].pc = "nlp"]
    /\ UNCHANGED <<call, mode, claude_available, stubbed, pc, force_llm, doc, path,
                   local_result, should_escalate, llm_result, result, attempts,
                   last_error, counts, events>>

\* process_invoice_task, step 2: the text is insufficient or the extraction
\* raises, or progress becomes 80.
process_invoice_task_nlp ==
    /\ \E i \in 1..Len(background_tasks), raises \in BOOLEAN :
          /\ background_tasks[i].pc = "nlp"
          /\ IF raises
             THEN TaskFails(i)
             ELSE /\ processing_status' =
                         [processing_status EXCEPT ![background_tasks[i].invoice_id] =
                             [@ EXCEPT !.progress = 80,
                                       !.message = "Validating extracted data..."]]
                  /\ background_tasks' = [background_tasks EXCEPT ![i].pc = "save"]
    /\ UNCHANGED <<call, mode, claude_available, stubbed, pc, force_llm, doc, path,
                   local_result, should_escalate, llm_result, result, attempts,
                   last_error, counts, events>>

\* process_invoice_task, step 3: writing the results raises, or the entry
\* becomes completed; the task ends.
process_invoice_task_save ==
    /\ \E i \in 1..Len(background_tasks), raises \in BOOLEAN :
          /\ background_tasks[i].pc = "save"
          /\ IF raises
             THEN TaskFails(i)
             ELSE /\ processing_status' =
                         [processing_status EXCEPT ![background_tasks[i].invoice_id] =
                             StatusEntry("completed", 100,
                                         "Processing completed successfully",
                                         "invoice_data")]
                  /\ background_tasks' = WithoutTask(background_tasks, i)
    /\ UNCHANGED <<call, mode, claude_available, stubbed, pc, force_llm, doc, path,
                   local_result, should_escalate, llm_result, result, attempts,
                   last_error, counts, events>>

\* The API process: no status entry, no task.
InitApi == InitUnit

NextApi ==
    \/ start_processing
    \/ process_invoice_task_begin
    \/ process_invoice_task_ocr
    \/ process_invoice_task_nlp
    \/ process_invoice_task_save

SpecApi == InitApi /\ [][NextApi]_vars

\* ------------------------------------------------------------------------
\* Properties
\* ------------------------------------------------------------------------
Hybrid == path = "hybrid"

RemoteReturned == llm_result # NoRecord

\* The remote call of a finished hybrid invocation failed.
RemoteFailed == counts.remote > 0 /\ llm_result = NoRecord /\ pc = "done"

\* C1: once the escalation check has run, its verdict is true exactly when
\* the local record requires review, or its confidence is below the
\* escalation threshold, or its invoice number is "UNKNOWN", or its total is
\* 0, or supplier and client name are both "UNKNOWN", or the document has
\* more than 3 tables.
C1_EscalationIff ==
    counts.check > 0 =>
        (should_escalate <=>
            \/ local_result.requires_review
            \/ local_result.confidence_score < LLM_ESCALATION_THRESHOLD
            \/ local_result.invoice_number = "UNKNOWN"
            \/ local_result.total = 0
            \/ (local_result.supplier.name = "UNKNOWN"
                /\ local_result.client.name = "UNKNOWN")
            \/ doc.tables > 3)

\* Escalation decided by the number of tables alone: the local record needs
\* no review and names its supplier, the document has 4 tables.
C1_Witness ==
    /\ counts.check > 0
    /\ should_escalate
    /\ ~local_result.requires_review
    /\ local_result.supplier.name # "UNKNOWN"
    /\ doc.tables = 4

C3_RemoteFailureKeepsLocal ==
    (Hybrid /\ RemoteFailed) =>
        /\ last_error \in RemoteErrors
        /\ result = local_result
        /\ result = extract_invoice_data(doc)
        /\ counts.local = 1
        /\ counts.parse = 1

\* A hybrid invocation that ended after a malformed answer of the remote
\* backend.
C3_Witness ==
    /\ Hybrid
    /\ RemoteFailed
    /\ last_error = "invalid_json"
    /\ result = local_result
    /\ result.origin = "local"

\* C4: a hybrid invocation whose escalation check is false, or whose remote
\* service is unavailable, returns the local record and makes no remote call.
C4_NoEscalationNoRemote ==
    (Hybrid /\ (~should_escalate \/ ~claude_available)) =>
        /\ pc = "done"
        /\ result = local_result
        /\ result = extract_invoice_data(doc)
        /\ counts.remote = 0
        /\ attempts = 0

\* Escalation wanted, remote service unavailable.
C4_Witness ==
    /\ Hybrid
    /\ should_escalate
    /\ ~claude_available
    /\ pc = "done"
    /\ result = local_result
    /\ counts.remote = 0

\* Position of the first occurrence of event e, or 0.
FirstIndex(e) ==
    IF \E i \in 1..Len(events) : events[i] = e
    THEN CHOOSE i \in 1..Len(events) :
             events[i] = e /\ \A j \in 1..(i - 1) : events[j] # e
    ELSE 0

\* C5 as stated: in an invocation without force_llm, whatever the mode, a
\* remote call is made only after local extraction has run and completed.
C5_LocalAlwaysFirst ==
    (~force_llm /\ counts.remote > 0) =>
        /\ counts.local > 0
        /\ FirstIndex("LocalExtracted") > 0
        /\ FirstIndex("LocalExtracted") < FirstIndex("RemoteCall")

\* C5 amended: in an invocation without force_llm, in hybrid mode the events
\* are LocalExtracted, EscalationCheck, then Escalate (followed by the remote
\* call) or Accept, then Final, with local extraction run once and before any
\* remote call; in local_only mode they are LocalExtracted, Final, with no
\* remote call; in llm_only mode the remote backend is called without any
\* local extraction.
C5_LocalFirstUnlessLlmOnly ==
    (~force_llm /\ path # "none") =>
        /\ mode = "hybrid" =>
              /\ counts.local = 1
              /\ counts.check = 1
              /\ Len(events) >= 4
              /\ events[1] = "LocalExtracted"
              /\ events[2] = "EscalationCheck"
              /\ events[3] \in {"Escalate", "Accept"}
              /\ events[3] = "Accept" => events = <<"LocalExtracted",
                    "EscalationCheck", "Accept", "Final">> /\ counts.remote = 0
              /\ events[3] = "Escalate" =>
                    /\ events[4] = "RemoteCall"
                    /\ counts.remote = 1
                    /\ Len(events) <= 5
                    /\ Len(events) = 5 <=> pc = "done"
                    /\ Len(events) = 5 => events[5] = "Final"
        /\ mode = "local_only" =>
              /\ counts.local = 1
              /\ counts.remote = 0
              /\ events = <<"LocalExtracted", "Final">>
        /\ (mode = "llm_only" /\ claude_available) =>
              /\ counts.local = 0
              /\ counts.remote = 1
              /\ events[1] = "RemoteCall"

\* A finished hybrid invocation that escalated.
C5_Witness ==
    /\ ~force_llm
    /\ mode = "hybrid"
    /\ pc = "done"
    /\ events = <<"LocalExtracted", "EscalationCheck", "Escalate", "RemoteCall",
                  "Final">>

\* C6: with force_llm and the remote service available, the remote backend is
\* called and the escalation check is never evaluated, in every mode.
C6_ForceSkipsCheck ==
    (force_llm /\ claude_available /\ path # "none") =>
        /\ path = "llm"
        /\ counts.check = 0
        /\ counts.remote = 1
        /\ events[1] = "RemoteCall"

\* A forced invocation in hybrid mode on a document whose local record would
\* not have escalated.
C6_Witness ==
    /\ force_llm
    /\ claude_available
    /\ mode = "hybrid"
    /\ counts.remote = 1
    /\ ~_should_escalate_to_llm(extract_invoice_data(doc), doc.tables)
    /\ pc = "done"
    /\ result = llm_result

\* C7: once the document is parsed, process_invoice returns a record and
\* does not raise.
C7_NeverRaises ==
    counts.parse > 0 => pc # "raised"

\* C8: one invocation calls the remote extraction operation at most once;
\* in the hybrid strategy exactly once when escalation triggers and the
\* service is available, and never otherwise nor again after a failure.
C8_AtMostOneRemoteCall ==
    /\ counts.remote <= 1
    /\ Hybrid =>
          counts.remote = IF should_escalate /\ claude_available THEN 1 ELSE 0

\* A hybrid invocation that ended after its only remote call failed on every
\* attempt.
C8_Witness ==
    /\ Hybrid
    /\ RemoteFailed
    /\ attempts = 3
    /\ counts.remote = 1

\* C9: no attempt against the remote backend is started after a
\* malformed-response failure.
C9_MalformedIsTerminal ==
    /\ counts.after_malformed = 0
    /\ last_error \in MalformedErrors => pc \notin {"backoff", "remote"}

\* C10: the remote call makes at most 3 attempts, a failure of the third
\* attempt reaches the orchestrator, and every invocation terminates; a
\* hybrid one never by raising, so by returning.
C10_BoundedRemoteCall ==
    /\ [](attempts <= 3)
    /\ [][(pc = "remote" /\ attempts = 2 /\ pc' # "returned") => pc' = "failed"]_vars
    /\ [](pc = "failed" => attempts = 3 /\ last_error \in RemoteErrors)
    /\ <>Terminated
    /\ [](Hybrid => pc # "raised")

\* A hybrid invocation that returned after three failed attempts.
C10_Witness ==
    /\ Hybrid
    /\ pc = "done"
    /\ attempts = 3
    /\ last_error \in RemoteErrors
    /\ result = local_result

\* C11: every successfully constructed invoice record whose confidence_score
\* is below 0.7 has requires_review true, whatever requires_review was passed
\* to the constructor.
C11_LowConfidenceNeedsReview ==
    (Constructed("InvoiceData") /\ call.ret.confidence_score < 2100) =>
        call.ret.requires_review

\* A record constructed with confidence 0.5 and requires_review false.
C11_Witness ==
    /\ Constructed("InvoiceData")
    /\ call.args.confidence_score = 1500
    /\ call.args.requires_review = FALSE
    /\ call.ret.confidence_score = 1500
    /\ call.ret.requires_review

\* C12: every constructed invoice record whose total differs from
\* subtotal + tax_amount by more than the tolerance has requires_review true
\* and a confidence_score of at most 0.7, whatever was passed.
C12_MismatchForcesReview ==
    (Constructed("InvoiceData")
     /\ Abs(call.ret.total - (call.ret.subtotal + call.ret.tax_amount)) > 2) =>
        /\ call.ret.requires_review
        /\ call.ret.confidence_score <= 2100

\* C13: every record returned by the pipeline, built locally or by the
\* remote backend, has requires_review true whenever its invoice_number is
\* "UNKNOWN" or its supplier name and client name are both "UNKNOWN".
C13_UnresolvedForcesReview ==
    (pc = "done"
     /\ \/ result.invoice_number = "UNKNOWN"
        \/ (result.supplier.name = "UNKNOWN" /\ result.client.name = "UNKNOWN")) =>
        result.requires_review

\* C14: in every record returned by the pipeline, each party's tax_id is
\* absent or a 9-character string the tax-identifier validator accepts.
C14_TaxIdsValidated ==
    pc = "done" =>
        \A party \in {result.supplier, result.client} :
            \/ party.tax_id = None
            \/ (Len(party.tax_id) = 9 /\ _validate_tax_id(party.tax_id))

\* C15: every record returned by the pipeline has at least one line; when
\* the table rows (local) or the line objects of the answer (remote) yield no
\* line, it has exactly one line, of confidence at most 0.5.
C15_AtLeastOneLine ==
    pc = "done" =>
        /\ Len(result.lines) >= 1
        /\ (result.origin = "local" /\ LinesOfRows(doc.rows) = << >>) =>
              (Len(result.lines) = 1 /\ result.lines[1].confidence <= 50)
        /\ result.origin = "claude" =>
              \A data \in RemoteData :
                  (result = _parse_extracted_data(data, doc.now)
                   /\ LinesOfData(data.lines) = << >>) =>
                      (Len(result.lines) = 1 /\ result.lines[1].confidence <= 50)

\* A local record for a document whose only table row has no price and no
\* total: the row is dropped and the record has the placeholder line.
C15_Witness ==
    /\ pc = "done"
    /\ result.origin = "local"
    /\ doc.rows = <<TableRows.unpriced>>
    /\ result.lines = <<InvoiceLine(1, 0, 0, 30)>>

\* C16: an invoice line constructed with line_total zero and unit_price
\* greater than 0 has line_total equal to quantity times unit_price.
C16_LineTotalDerived ==
    (Constructed("InvoiceLine")
     /\ call.args.line_total = 0
     /\ call.args.unit_price > 0) =>
        call.ret.line_total = call.args.quantity * call.args.unit_price

\* str.upper() on the characters of the identifiers.
ToUpper(c) ==
    CASE c = "a" -> "A"
      [] c = "b" -> "B"
      [] OTHER -> c

\* The identifier upper-cased, with hyphens and whitespace removed.
NormalizedTaxId(tax_id) ==
    LET kept == SelectSeq(tax_id, LAMBDA c : c \notin {"-", " "})
    IN  [i \in 1..Len(kept) |-> ToUpper(kept[i])]

\* C18: a party record constructed with a tax identifier stores the
\* identifier upper-cased, with hyphens and whitespace removed.
C18_TaxIdNormalized ==
    (Constructed("CompanyInfo") /\ call.args.tax_id # None) =>
        call.ret.tax_id = NormalizedTaxId(call.args.tax_id)

\* s is 9 characters long: one of first, seven digits, one of last.
LetterDigitsCheck(s, first, last) ==
    /\ Len(s) = 9
    /\ s[1] \in first
    /\ \A i \in 2..8 : s[i] \in Digits
    /\ s[9] \in last

\* s is 9 characters long: eight digits and an upper-case letter.
DigitsLetter(s) ==
    /\ Len(s) = 9
    /\ \A i \in 1..8 : s[i] \in Digits
    /\ s[9] \in UpperLetters

\* C17 as stated: the validator returns true exactly for any letter + 7
\* digits + one alphanumeric character, 8 digits + one letter, or one of X,
\* Y, Z + 7 digits + one letter, and false for every other string.
C17_AnyLetterGrammar ==
    call.fn = "_validate_tax_id" =>
        (call.ret <=>
            \/ LetterDigitsCheck(call.args.tax_id, UpperLetters,
                                 UpperLetters \cup Digits)
            \/ DigitsLetter(call.args.tax_id)
            \/ LetterDigitsCheck(call.args.tax_id, {"X", "Y", "Z"}, UpperLetters))

\* C17 amended: the validator returns a truth value for every argument, and
\* true exactly for the 9-character strings of one of three shapes: one of
\* the letters A B C D E F G H J N P Q R S U V W + 7 digits + one of the
\* letters A to J or a digit; 8 digits + one upper-case letter; one of X, Y,
\* Z + 7 digits + one upper-case letter.
C17_CifGrammar ==
    call.fn = "_validate_tax_id" =>
        /\ call.ret \in BOOLEAN
        /\ call.ret <=>
              \/ LetterDigitsCheck(call.args.tax_id,
                     {"A", "B", "C", "D", "E", "F", "G", "H", "J", "N", "P", "Q",
                      "R", "S", "U", "V", "W"},
                     {"A", "B", "C", "D", "E", "F", "G", "H", "I", "J", "0", "1",
                      "2", "3", "4", "5", "6", "7", "8", "9"})
              \/ DigitsLetter(call.args.tax_id)
              \/ LetterDigitsCheck(call.args.tax_id, {"X", "Y", "Z"}, UpperLetters)

\* The validator rejects a letter, seven digits and a letter where the first
\* letter is none of the business letters.
C17_Witness ==
    /\ call.fn = "_validate_tax_id"
    /\ call.args.tax_id = <<"K", "1", "2", "3", "4", "5", "6", "7", "A">>
    /\ call.ret = FALSE

\* The amount a cleaned text writes when `decimal` is its decimal separator
\* and every other separator groups thousands.
ReadWith(cleaned, decimal) ==
    Quantized(Replace(Remove(cleaned, {".", ","} \ {decimal}), decimal, "."))

\* C19: after currency symbols and whitespace are stripped, with both
\* separators present the right-most one is the decimal separator; a lone
\* comma is the decimal separator when it lies within the last three
\* characters and groups thousands otherwise; and a text that does not write
\* a decimal number yields zero.
C19_SeparatorRules ==
    call.fn = "_parse_decimal" =>
        LET cleaned == Remove(call.args.value, CurrencyAndSpace)
            commas == CountOf(cleaned, ",")
            points == CountOf(cleaned, ".")
            rightmost == IF RFind(cleaned, ",") > RFind(cleaned, ".") THEN "," ELSE "."
            inLastThree == RFind(cleaned, ",") > Len(cleaned) - 3
            resolved == IF commas > 0 /\ points > 0 THEN rightmost
                        ELSE IF commas = 1 /\ inLastThree THEN ","
                        ELSE IF commas > 0 THEN "none"
                        ELSE "."
            written == Replace(Remove(cleaned, {".", ","} \ {resolved}), resolved, ".")
        IN  /\ (commas > 0 /\ points > 0) => call.ret = ReadWith(cleaned, rightmost)
            /\ (commas = 1 /\ points = 0 /\ inLastThree) => call.ret = ReadWith(cleaned, ",")
            /\ (commas = 1 /\ points = 0 /\ ~inLastThree) => call.ret = ReadWith(cleaned, "none")
            /\ ~Decimal(written).ok => call.ret = Amount(0)

\* "1.000,00 €" is read as 1000.00.
C19_Witness ==
    /\ call.fn = "_parse_decimal"
    /\ call.args.value = <<"1", ".", "0", "0", "0", ",", "0", "0", " ", "€">>
    /\ call.ret = Amount(100000)

\* A document in which no date format matches.
Undated(d) == d.date.window = NoDate /\ d.date.rest = NoDate

\* C20: when no date format matches the document, the record local
\* extraction returns differs from the record of every document that is the
\* same but for a date that is found.
C20_UnresolvedDateDistinct ==
    (pc = "done" /\ result.origin = "local" /\ Undated(doc)) =>
        \A s \in DateSections :
            (s.label /\ s.window # NoDate) =>
                extract_invoice_data([doc EXCEPT !.date = s]) # result

\* The result of a directly extracted amount.
Found(amount) == ExtractionResult(amount, AMOUNT_CONFIDENCE)

\* C21: when exactly two of subtotal, tax and total were found, the third is
\* their sum or difference and the two found are returned as found; when
\* only the total was found, subtotal is total / 1.21 and tax is total minus
\* subtotal, both below the confidence of a directly extracted amount.
C21_ThirdDerivedFromTwo ==
    call.fn = "_extract_totals" =>
        LET a == call.args
            r == call.ret
        IN  /\ (a.subtotal = 0 /\ a.tax > 0 /\ a.total > 0) =>
                  /\ r.tax = Found(a.tax)
                  /\ r.total = Found(a.total)
                  /\ r.subtotal.value = a.total - a.tax
            /\ (a.subtotal > 0 /\ a.tax = 0 /\ a.total > 0) =>
                  /\ r.subtotal = Found(a.subtotal)
                  /\ r.total = Found(a.total)
                  /\ r.tax.value = a.total - a.subtotal
            /\ (a.subtotal > 0 /\ a.tax > 0 /\ a.total = 0) =>
                  /\ r.subtotal = Found(a.subtotal)
                  /\ r.tax = Found(a.tax)
                  /\ r.total.value = a.subtotal + a.tax
            /\ (a.subtotal = 0 /\ a.tax = 0 /\ a.total > 0) =>
                  /\ r.total = Found(a.total)
                  /\ r.subtotal.value = RoundHalfEven(a.total * 100, 121)
                  /\ r.tax.value = a.total - r.subtotal.value
                  /\ r.subtotal.confidence < AMOUNT_CONFIDENCE
                  /\ r.tax.confidence < AMOUNT_CONFIDENCE

\* C22: when subtotal, tax and total are all found, the local record keeps
\* them if total = subtotal + tax within 0.01, and otherwise keeps total and
\* subtotal and has tax = total - subtotal.
C22_TotalsConsistent ==
    (pc = "done" /\ result.origin = "local"
     /\ doc.subtotal > 0 /\ doc.tax > 0 /\ doc.total > 0) =>
        /\ result.subtotal = doc.subtotal
        /\ result.total = doc.total
        /\ result.tax_amount = IF Abs(doc.total - (doc.subtotal + doc.tax)) <= TOTAL_TOLERANCE
                               THEN doc.tax
                               ELSE doc.total - doc.subtotal

\* C23: local extraction returns the same record for the same document on
\* whatever day it runs.
C23_LocalDeterministic ==
    (pc = "done" /\ result.origin = "local") =>
        \A n \in Days : extract_invoice_data([doc EXCEPT !.now = n]) = result

\* C24: without an API key the effective mode is local_only for every
\* configured mode, the remote backend is never called, with or without
\* force_llm, and the record returned is the local one.
C24_NoKeyStaysLocal ==
    /\ \A m \in Modes : effective_extraction_mode(m, FALSE) = "local_only"
    /\ ~claude_available =>
          /\ mode = "local_only"
          /\ counts.remote = 0
          /\ pc # "remote"
          /\ pc = "done" =>
                /\ result = extract_invoice_data(doc)
                /\ result.origin = "local"

\* process_invoice(force_llm=True) without a key has returned the local
\* record.
C24_Witness ==
    /\ ~claude_available
    /\ force_llm
    /\ pc = "done"
    /\ path = "llm"
    /\ result = extract_invoice_data(doc)
    /\ counts.remote = 0

\* C25: for the sample invoice of the tests local extraction returns the
\* invoice number (written "F2024" in the model), invoice_date 2024-01-15,
\* subtotal 2000.00, tax_amount 420.00, total 2420.00 and an
\* extraction_method of "local".
C25_SampleInvoiceExtracted ==
    (call.fn = "extract_invoice_data" /\ call.args = SampleInvoiceText) =>
        /\ call.ret.invoice_number = "F2024"
        /\ call.ret.invoice_date = "2024-01-15"
        /\ call.ret.subtotal = 200000
        /\ call.ret.tax_amount = 42000
        /\ call.ret.total = 242000
        /\ "extraction_method" \in DOMAIN call.ret

\* C26: when the line-item extractor fails, local extraction still returns a
\* record: the one whose lines are unresolved and whose other fields are
\* what the other extractors find.
C26_ExtractorsIsolated ==
    (call.fn = "extract_invoice_data" /\ _extract_line_items_raises(call.args.rows)) =>
        call.ret = extract_invoice_data(FoundIn([call.args EXCEPT !.rows = << >>]))

\* C27: the overall confidence of a local record depends on each per-field
\* confidence: a document that differs only in its client section, or only
\* in its table rows, and whose client or line confidence differs, has a
\* different overall confidence.
C27_EveryFieldWeighs ==
    (pc = "done" /\ result.origin = "local") =>
        /\ \A c \in ClientSections :
              LET other == extract_invoice_data([doc EXCEPT !.client = c])
              IN  other.client.confidence # result.client.confidence =>
                      other.confidence_score # result.confidence_score
        /\ \A r \in RowLists \cup {<< >>} :
              LET other == extract_invoice_data([doc EXCEPT !.rows = r])
              IN  other.lines[1].confidence # result.lines[1].confidence =>
                      other.confidence_score # result.confidence_score

\* C28: the date found in the window after the label is the invoice date;
\* when the window holds no date, the date found elsewhere in the document
\* is.
C28_DateFallsBackToDocument ==
    (pc = "done" /\ result.origin = "local") =>
        /\ (doc.date.label /\ doc.date.window # NoDate) =>
              result.invoice_date = doc.date.window
        /\ (doc.date.window = NoDate /\ doc.date.rest # NoDate) =>
              result.invoice_date = doc.date.rest

\* The tasks of an invoice that were added and have not finished.
TasksInFlight(invoice_id) ==
    {i \in 1..Len(background_tasks) : background_tasks[i].invoice_id = invoice_id}

\* C29: for every invoice at most one task is in flight; a start request
\* that finds the status "processing" or "completed" adds no task and leaves
\* the status entries unchanged; and a completed entry never changes.
C29_OneTaskInFlight ==
    /\ [](\A id \in InvoiceIds : Cardinality(TasksInFlight(id)) <= 1)
    /\ [][\A id \in InvoiceIds :
            /\ (/\ processing_status[id].status \in {"processing", "completed"}
                /\ start_processing_request(id, TRUE)) =>
                   UNCHANGED <<processing_status, background_tasks>>
            /\ processing_status[id].status = "completed" =>
                   processing_status'[id] = processing_status[id]]_vars

\* A start request for an invoice whose task is running was answered
\* "Processing already in progress" while the other invoice is completed.
C29_Witness ==
    /\ call.fn = "start_processing"
    /\ call.ret = InvoiceProcessingStatus("inv-1", "processing", 40,
                                          "Processing already in progress", "none")
    /\ Cardinality(TasksInFlight("inv-1")) = 1
    /\ processing_status["inv-2"].status = "completed"

\* C30: in hybrid mode the comparison never keeps the local record: a record
\* built by the remote backend has confidence_score 0.92, a record built by
\* the local engine has a confidence_score strictly below 0.92, so after an
\* escalation whose remote call succeeded the returned record is the remote
\* one, and the two confidences are never equal.
C30_RemoteAlwaysWins ==
    /\ llm_result # NoRecord => llm_result.confidence_score = LLM_CONFIDENCE
    /\ local_result # NoRecord => local_result.confidence_score < LLM_CONFIDENCE
    /\ (path = "hybrid" /\ pc \in {"returned", "done"} /\ llm_result # NoRecord) =>
          /\ should_escalate
          /\ llm_result.confidence_score # local_result.confidence_score
          /\ ChooseResult(llm_result, local_result) = llm_result
          /\ pc = "done" => (result = llm_result /\ result.origin = "claude")

\* A hybrid run escalated a local record of the highest local confidence,
\* (0.95 + 0.85 + 0.85) / 3, and returned the remote record.
C30_Witness ==
    /\ path = "hybrid"
    /\ pc = "done"
    /\ should_escalate
    /\ local_result.confidence_score >= 2650
    /\ llm_result # NoRecord
    /\ result = llm_result
    /\ result.confidence_score = LLM_CONFIDENCE
====
